---- MODULE Spec2Model ----
(***************************************************************************)
(* Model of the Whisper Dictate menu-bar application (src/app.py) with its *)
(* collaborators: the Recorder (src/recorder.py), the transcribe function  *)
(* (src/transcriber.py) and the review popup (src/popup.py).               *)
(*                                                                         *)
(* Threads of the program:                                                 *)
(*   - the main run loop, which runs the event-tap callback, the timers    *)
(*     started by that callback, the menu callbacks and calibration;       *)
(*   - the audio thread, which runs Recorder._callback;                    *)
(*   - one do_transcribe thread per stopped session.                       *)
(* A handler that runs on the main run loop is one atomic action; a step   *)
(* of a do_transcribe thread is the return of one of its two blocking      *)
(* calls (the engine, the popup) with the statements that follow it up to  *)
(* the next blocking call or the end of the thread.                        *)
(* rumps.Timer(f, 0).start() is modelled as "call f once, later, on the    *)
(* main run loop, in the order of the start() calls".                      *)
(*                                                                         *)
(* Specifications:                                                         *)
(*   Spec            the application as a whole;                           *)
(*   StoreSpec       save_training_data statement by statement, with the   *)
(*                   process dying and entries deleted by hand;            *)
(*   TranscribeSpec  one call of transcribe for every engine behaviour;    *)
(*   RecorderSpec    the Recorder called in any order;                     *)
(*   CaptureSpec     the Recorder statement by statement, _callback on the *)
(*                   audio thread against start and stop;                  *)
(*   V3Spec          the key handlers of src/panokeet_v3.py;               *)
(*   ServerSpec      the requests to src/backend/server.py;                *)
(*   RecalSpec       Spec with calibrations on top of an installed tap;    *)
(*   SaveFailSpec    Spec with the save branch of do_transcribe taken and  *)
(*                   writes that raise;                                    *)
(*   HangSpec        Spec with an engine that may never exit, under weak   *)
(*                   fairness of the engine calls;                         *)
(*   DictateSpec     src/dictate.py: the key listener against the threads  *)
(*                   of _stop_and_save, statement by statement;            *)
(*   PAppSpec        src/panokeet_app.py: the main thread against the      *)
(*                   threads of _process_audio.                            *)
(***************************************************************************)
EXTENDS Integers, Sequences, FiniteSets, TLC

\* ---------------------------------------------------------------- bounds
MaxSessions == 2      \* Recorder.start calls explored
MaxBlocks == 1        \* sample blocks buffered per session
MaxQueue == 1         \* timers started and not yet fired
MaxTaps == 1          \* event taps installed (construction + calibrations)
MaxId == 4            \* largest entry number in DATA_DIR at the start
MaxOut == 4           \* characters of an engine output
MaxStarts == 3        \* Recorder.start calls made on a Recorder on its own

\* ------------------------------------------------------------- constants
None == -1            \* Python None in the "toggle_key"/"hold_key" slots
Keycodes == {0, 89, 91}      \* key codes of the key events delivered
CalibKeys == {89, 91}        \* key codes pressed during a calibration
NoStream == 0         \* Recorder.stream is None

Ws == {" ", "\n", "\t"}     \* the characters str.strip removes
Chars == {"h", "w"} \cup Ws  \* the characters of an engine output
EngineOutputs ==
    { <<" ", "\n">>,
      <<"h", "\n", " ", "w", " ", "\n", "\n">> }
EditedTexts == { <<"o", "k">> }

\* ------------------------------------------------------------- variables
VARIABLES
    config,            \* WhisperDictateApp.config
    taps,              \* event taps installed by setup_hotkeys, newest first
    is_recording,      \* WhisperDictateApp.is_recording
    hold_key_pressed,  \* WhisperDictateApp.hold_key_pressed
    status,            \* WhisperDictateApp.status
    recording,         \* Recorder.recording
    audio_data,        \* Recorder.audio_data: blocks, each tagged with its stream
    stream,            \* Recorder.stream: NoStream or the handle of a stream
    streams,           \* the audio input streams that are open: handle -> started?
    timers,            \* calls queued on the main run loop by rumps.Timer
    threads,           \* do_transcribe threads, one per session
    tempfiles,         \* temporary wav files that exist (named by session)
    data_dir,          \* DATA_DIR: the audio_NNNNNN.wav numbers that exist
    data_files,        \* DATA_DIR: the audio_NNNNNN.txt and _raw.txt files
    manifest,          \* DATA_DIR/manifest.json "entries"
    manifest_ok,       \* manifest.json is absent or holds complete JSON
    saver,             \* the save_training_data call in progress
    saved,             \* history: the numbers of the completed saves
    engine,            \* the inputs of a call of transcribe
    transcript,        \* what that call of transcribe gave
    session,           \* history: number of Recorder.start calls so far
    armedBy,           \* history: what started the latest session
    endedBy,           \* history: what stopped it ("none" while it records)
    cb,                \* the Recorder._callback activation on the audio thread
    stop_pc,           \* the statement a Recorder.stop call has reached
    delivered,         \* history: blocks the stream has delivered this session
    armed_seen,        \* history: blocks whose callback read recording = True
    returned,          \* the audio the latest Recorder.stop wrote out
    v3,                \* panokeet_v3.Panokeet: config, hold_active, threads begun
    key,               \* history: the key event panokeet_v3 handled last
    server,            \* backend/server.py: the other fields of RecorderState
    reply,             \* history: the answer to the latest request to the server
    dictate,           \* dictate.py: cmd_pressed, numpad8_held; the keys held down
    stoppers,          \* dictate.py: the _stop_and_save threads
    handed,            \* history: the sessions dictate.py handed to transcribe
    papp               \* panokeet_app.py: the fields of PanokeetApp, its threads

vars == << config, taps, is_recording, hold_key_pressed, status, recording,
           audio_data, stream, streams, timers, threads, tempfiles, data_dir,
           data_files, manifest, manifest_ok, saver, saved, engine, transcript,
           session, armedBy, endedBy, cb, stop_pc, delivered, armed_seen,
           returned, v3, key, server, reply, dictate, stoppers, handed,
           papp >>

envVars == << config, taps >>

fileVars == << data_dir, data_files, manifest, manifest_ok >>

\* the Recorder statement by statement (CaptureSpec)
captureVars == << cb, stop_pc, delivered, armed_seen, returned >>

\* the variables of the parts that are driven on their own
partVars == << captureVars, v3, key, server, reply, dictate, stoppers,
              handed, papp >>

callVars == << saver, saved, engine, transcript, partVars >>

Sessions == 1..MaxSessions

\* ------------------------------------------------------ text normalisation
IsWs(c) == c \in Ws

RECURSIVE lstrip(_)
lstrip(s) == IF s # <<>> /\ IsWs(Head(s)) THEN lstrip(Tail(s)) ELSE s

RECURSIVE rstrip(_)
rstrip(s) ==
    IF s # <<>> /\ IsWs(s[Len(s)]) THEN rstrip(SubSeq(s, 1, Len(s) - 1)) ELSE s

strip(s) == rstrip(lstrip(s))

\* str.split('\n'): the pieces between the newlines (one more than newlines)
RECURSIVE split(_, _)
split(s, cur) ==
    IF s = <<>> THEN << cur >>
    ELSE IF Head(s) = "\n" THEN << cur >> \o split(Tail(s), <<>>)
    ELSE split(Tail(s), Append(cur, Head(s)))

RECURSIVE join(_)
join(ls) ==
    IF ls = <<>> THEN <<>>
    ELSE IF Len(ls) = 1 THEN ls[1]
    ELSE ls[1] \o << " " >> \o join(Tail(ls))

RECURSIVE cleanLines(_)
cleanLines(ls) ==
    IF ls = <<>> THEN <<>>
    ELSE IF strip(Head(ls)) # <<>>
         THEN << strip(Head(ls)) >> \o cleanLines(Tail(ls))
         ELSE cleanLines(Tail(ls))

\* the clean-up without the treatment of the single lines
Normalize_rawlines(stdout) == join(split(strip(stdout), <<>>))

Normalize(stdout) == join(cleanLines(split(strip(stdout), <<>>)))

\* transcribe(audio_path): raises when MODEL_PATH does not exist, returns ""
\* on a non-zero exit status of the engine, the cleaned output otherwise.
transcribe(model_exists, returncode, stdout) ==
    IF ~model_exists THEN [raised |-> TRUE, text |-> <<>>]
    ELSE IF returncode # 0 THEN [raised |-> FALSE, text |-> <<>>]
    ELSE [raised |-> FALSE, text |-> Normalize(stdout)]

\* no call of transcribe made on its own
NoEngine == [model_exists |-> TRUE, returncode |-> 0, stdout |-> <<>>]
NoTranscript == [pc |-> "none", text |-> <<>>]

\* ------------------------------------------------------------ the popup
\* TranscriptionPopup.onDone_ / onCancel_: the result handed back by show()
onDone(original, text) ==
    [action |-> "done", text |-> text, was_edited |-> (text # original),
     needs_review |-> << ~(text # original) >>]

onCancel(original) ==
    [action |-> "cancel", text |-> original, was_edited |-> FALSE,
     needs_review |-> <<>>]

show_transcription_popup(original) ==
    { onCancel(original) } \cup
    { onDone(original, t) : t \in {original} \cup EditedTexts }

\* a do_transcribe thread: the blocking call it is in and its locals; NoThread
\* is the slot of a session with no live thread (none started, or it ended)
NoThread == [pc |-> "none", text |-> <<>>, duration |-> 0]

\* ------------------------------------------------------------- recorder
\* Recorder.start: outcome "ok", "open_fails" (sd.InputStream raises) or
\* "start_fails" (stream.start raises).  Returns normally only on "ok".
Recorder_start(outcome) ==
    /\ audio_data' = <<>>
    /\ recording' = TRUE
    /\ session' = session + 1
    /\ IF outcome = "open_fails"
       THEN UNCHANGED << stream, streams >>
       ELSE /\ stream' = session + 1
            /\ streams' = [h \in DOMAIN streams \cup {session + 1} |->
                             IF h = session + 1 THEN outcome = "ok"
                             ELSE streams[h]]

\* Recorder._callback for a block delivered by stream h
Recorder_callback(h) ==
    IF recording
    THEN audio_data' = Append(audio_data, h)
    ELSE UNCHANGED audio_data

\* Recorder.stop: the state part; the result is Recorder_stop_result
Recorder_stop ==
    /\ recording' = FALSE
    /\ stream' = NoStream
    /\ streams' = [h \in DOMAIN streams \ {stream} |-> streams[h]]
    /\ UNCHANGED audio_data

\* Recorder.stop without the test of an empty buffer
Recorder_stop_result_always == TRUE

\* None (FALSE) when nothing was captured, else a temp file is written
Recorder_stop_result == audio_data # <<>>


\* ------------------------------------------------------------ controller
ctlVars == << is_recording, status, recording, audio_data, stream, streams,
              session, armedBy, endedBy, threads, tempfiles >>

\* WhisperDictateApp.update_status
update_status(s) == status' = s

\* start_recording without the test of is_recording
start_recording_noguard(mode, outcome) ==
    /\ is_recording' = TRUE
    /\ update_status("recording")
    /\ Recorder_start(outcome)
    /\ armedBy' = mode
    /\ endedBy' = "none"
    /\ UNCHANGED << threads, tempfiles >>

\* WhisperDictateApp.start_recording; mode is recorded as history only
start_recording(mode, outcome) ==
    IF is_recording
    THEN UNCHANGED ctlVars
    ELSE /\ is_recording' = TRUE
         /\ update_status("recording")
         /\ Recorder_start(outcome)
         /\ armedBy' = mode
         /\ endedBy' = "none"
         /\ UNCHANGED << threads, tempfiles >>

\* WhisperDictateApp.stop_recording up to Thread(target=do_transcribe).start();
\* by is recorded as history only
stop_recording(by) ==
    IF ~is_recording
    THEN UNCHANGED ctlVars
    ELSE /\ is_recording' = FALSE
         /\ Recorder_stop
         /\ endedBy' = by
         /\ UNCHANGED << session, armedBy >>
         /\ IF ~Recorder_stop_result
            THEN /\ update_status("ready")
                 /\ UNCHANGED << threads, tempfiles >>
            ELSE /\ update_status("transcribing")
                 /\ tempfiles' = tempfiles \cup {session}
                 /\ threads' = [threads EXCEPT ![session] =
                                  [NoThread EXCEPT !.pc = "transcribe",
                                                   !.duration = Len(audio_data)]]

\* toggle_recording that never stops
toggle_recording_startonly(outcome) == start_recording("toggle", outcome)

\* WhisperDictateApp.toggle_recording
toggle_recording(outcome) ==
    IF is_recording THEN stop_recording("toggle")
    ELSE start_recording("toggle", outcome)

StartOutcomes == {"ok", "open_fails", "start_fails"}

\* ------------------------------------------------------------ hotkeys
Falsy(k) == k = None \/ k = 0

\* callback whose hold branch calls toggle_recording
callback_holdtoggles(tap, ev, latch) ==
    IF ev.type = "Down"
    THEN IF ev.keycode = tap.toggle_key
         THEN [latch |-> latch, cmds |-> << "toggle" >>]
         ELSE IF ev.keycode = tap.hold_key /\ ~latch
              THEN [latch |-> TRUE, cmds |-> << "toggle" >>]
              ELSE [latch |-> latch, cmds |-> <<>>]
    ELSE IF ev.keycode = tap.hold_key /\ latch
         THEN [latch |-> FALSE, cmds |-> << "stop" >>]
         ELSE [latch |-> latch, cmds |-> <<>>]

\* callback without the test of the latch on the hold key's Up
callback_upstops(tap, ev, latch) ==
    IF ev.type = "Down"
    THEN IF ev.keycode = tap.toggle_key
         THEN [latch |-> latch, cmds |-> << "toggle" >>]
         ELSE IF ev.keycode = tap.hold_key /\ ~latch
              THEN [latch |-> TRUE, cmds |-> << "start" >>]
              ELSE [latch |-> latch, cmds |-> <<>>]
    ELSE IF ev.keycode = tap.hold_key
         THEN [latch |-> FALSE, cmds |-> << "stop" >>]
         ELSE [latch |-> latch, cmds |-> <<>>]

\* callback that does not clear the latch on the hold key's Up
callback_keepslatch(tap, ev, latch) ==
    IF ev.type = "Down"
    THEN IF ev.keycode = tap.toggle_key
         THEN [latch |-> latch, cmds |-> << "toggle" >>]
         ELSE IF ev.keycode = tap.hold_key /\ ~latch
              THEN [latch |-> TRUE, cmds |-> << "start" >>]
              ELSE [latch |-> latch, cmds |-> <<>>]
    ELSE IF ev.keycode = tap.hold_key /\ latch
         THEN [latch |-> latch, cmds |-> << "stop" >>]
         ELSE [latch |-> latch, cmds |-> <<>>]

\* callback without the test of the latch on the hold key's Down
callback_nolatchtest(tap, ev, latch) ==
    IF ev.type = "Down"
    THEN IF ev.keycode = tap.toggle_key
         THEN [latch |-> latch, cmds |-> << "toggle" >>]
         ELSE IF ev.keycode = tap.hold_key
              THEN [latch |-> TRUE, cmds |-> << "start" >>]
              ELSE [latch |-> latch, cmds |-> <<>>]
    ELSE IF ev.keycode = tap.hold_key /\ latch
         THEN [latch |-> FALSE, cmds |-> << "stop" >>]
         ELSE [latch |-> latch, cmds |-> <<>>]

\* setup_hotkeys.callback of one tap, for one key event: the new latch and
\* the timers it starts
callback(tap, ev, latch) ==
    IF ev.type = "Down"
    THEN IF ev.keycode = tap.toggle_key
         THEN [latch |-> latch, cmds |-> << "toggle" >>]
         ELSE IF ev.keycode = tap.hold_key /\ ~latch
              THEN [latch |-> TRUE, cmds |-> << "start" >>]
              ELSE [latch |-> latch, cmds |-> <<>>]
    ELSE IF ev.keycode = tap.hold_key /\ latch
         THEN [latch |-> FALSE, cmds |-> << "stop" >>]
         ELSE [latch |-> latch, cmds |-> <<>>]

\* every installed tap sees the event, newest tap first (head insertion)
RECURSIVE Deliver(_, _, _)
Deliver(ts, ev, acc) ==
    IF ts = <<>> THEN acc
    ELSE LET r == callback(Head(ts), ev, acc.latch)
         IN  Deliver(Tail(ts), ev,
                     [latch |-> r.latch, cmds |-> acc.cmds \o r.cmds])

KeyEvents == [keycode : Keycodes, type : {"Down", "Up"}]

KeyEvent(ev) ==
    LET r == Deliver(taps, ev, [latch |-> hold_key_pressed, cmds |-> <<>>])
    IN  /\ taps # <<>>
        /\ Len(timers) + Len(r.cmds) <= MaxQueue
        /\ hold_key_pressed' = r.latch
        /\ timers' = timers \o r.cmds
        /\ UNCHANGED << ctlVars, fileVars, callVars, envVars >>

\* a command starts a session only below the bound on sessions
MayRun(cmd) ==
    (cmd \in {"toggle", "start"} /\ ~is_recording) => session < MaxSessions

\* the main run loop fires the oldest timer
RunTimer ==
    /\ timers # <<>>
    /\ MayRun(Head(timers))
    /\ timers' = Tail(timers)
    /\ \E outcome \in StartOutcomes :
         CASE Head(timers) = "toggle" -> toggle_recording(outcome)
           [] Head(timers) = "start" -> start_recording("hold", outcome)
           [] Head(timers) = "stop" -> stop_recording("hold")
    /\ UNCHANGED << hold_key_pressed, fileVars, callVars, envVars >>

\* the "Toggle Recording" menu item
MenuToggle ==
    /\ MayRun("toggle")
    /\ \E outcome \in StartOutcomes : toggle_recording(outcome)
    /\ UNCHANGED << hold_key_pressed, timers, fileVars, callVars, envVars >>

\* the audio thread delivers a block of a started stream
AudioCallback ==
    \E h \in DOMAIN streams :
        /\ streams[h]
        /\ Len(audio_data) < MaxBlocks
        /\ Recorder_callback(h)
        /\ UNCHANGED << config, taps, is_recording, hold_key_pressed, status,
                        recording, stream, streams, timers, threads, tempfiles,
                        fileVars, callVars, session, armedBy, endedBy >>


\* ------------------------------------------------------ training data
Max(S) == CHOOSE m \in S : \A x \in S : x <= m

\* num of save_training_data: 1 with no audio_*.wav in DATA_DIR, else one
\* more than the largest number among them
next_number_count(existing) == Cardinality(existing) + 1

next_number(existing) ==
    IF existing = {} THEN 1 ELSE Max(existing) + 1

\* the record save_training_data appends to manifest["entries"]
manifest_entry(num, duration, was_edited) ==
    [id |-> num, duration |-> duration, was_edited |-> was_edited,
     audio |-> num, text |-> num]

\* the files text_dest and raw_dest written for num
text_dest(num) == << "txt", num >>
raw_dest(num) == << "raw", num >>

\* WhisperDictateApp.save_training_data(audio_path, ...) as one step of the
\* thread that calls it, audio_path being the temp file of session t
save_training_data(t, final_text, raw_text, duration, was_edited) ==
    LET num == next_number(data_dir)
    IN  /\ tempfiles' = tempfiles \ {t}
        /\ data_dir' = data_dir \cup {num}
        /\ data_files' = data_files \cup {text_dest(num)} \cup
                           (IF was_edited THEN {raw_dest(num)} ELSE {})
        /\ manifest' = Append(manifest, manifest_entry(num, duration, was_edited))
        /\ manifest_ok' = TRUE

\* ------------------------------------- save_training_data, step by step
\* The same call statement by statement, each file operation a step, so that
\* the process can die between any two of them.
NoSave == [pc |-> "idle", audio_path |-> 0, num |-> 0, duration |-> 0,
           was_edited |-> FALSE, entries |-> <<>>]

appVars == << config, taps, is_recording, hold_key_pressed, status, recording,
              audio_data, stream, streams, timers, threads, armedBy, endedBy >>

\* the call for the temp file of the next session: the glob and num
SaveCall(was_edited) ==
    /\ saver.pc = "idle"
    /\ session < MaxSessions
    /\ session + 1 \in tempfiles
    /\ session' = session + 1
    /\ saver' = [NoSave EXCEPT !.pc = "move", !.audio_path = session + 1,
                               !.num = next_number(data_dir), !.duration = 1,
                               !.was_edited = was_edited]
    /\ UNCHANGED << appVars, partVars, tempfiles, fileVars, saved, engine, transcript >>

\* shutil.move(str(audio_path), str(audio_dest))
SaveMove ==
    /\ saver.pc = "move"
    /\ tempfiles' = tempfiles \ {saver.audio_path}
    /\ data_dir' = data_dir \cup {saver.num}
    /\ saver' = [saver EXCEPT !.pc = "text"]
    /\ UNCHANGED << appVars, partVars, session, data_files, manifest, manifest_ok, saved,
                    engine, transcript >>

\* a save that goes on without writing the text file
SaveText_nowrite ==
    /\ saver.pc = "text"
    /\ saver' = [saver EXCEPT !.pc = IF saver.was_edited THEN "raw" ELSE "load"]
    /\ UNCHANGED << appVars, partVars, session, tempfiles, fileVars, saved, engine,
                    transcript >>

\* text_dest.write_text(final_text)
SaveText ==
    /\ saver.pc = "text"
    /\ data_files' = data_files \cup {text_dest(saver.num)}
    /\ saver' = [saver EXCEPT !.pc = IF saver.was_edited THEN "raw" ELSE "load"]
    /\ UNCHANGED << appVars, partVars, session, tempfiles, data_dir, manifest, manifest_ok,
                    saved, engine, transcript >>

\* raw_dest.write_text(raw_text), for an edited text only
SaveRaw ==
    /\ saver.pc = "raw"
    /\ data_files' = data_files \cup {raw_dest(saver.num)}
    /\ saver' = [saver EXCEPT !.pc = "load"]
    /\ UNCHANGED << appVars, partVars, session, tempfiles, data_dir, manifest, manifest_ok,
                    saved, engine, transcript >>

\* json.load of the manifest (it raises on incomplete JSON, which ends the
\* call) or {"entries": []}, and the append to the loaded list
SaveLoad ==
    /\ saver.pc = "load"
    /\ saver' = IF manifest_ok
                THEN [saver EXCEPT !.pc = "open",
                        !.entries = Append(manifest,
                            manifest_entry(saver.num, saver.duration,
                                           saver.was_edited))]
                ELSE NoSave
    /\ UNCHANGED << appVars, partVars, session, tempfiles, fileVars, saved, engine,
                    transcript >>

\* open(manifest_path, 'w'): the file is emptied
SaveOpen ==
    /\ saver.pc = "open"
    /\ manifest' = <<>>
    /\ manifest_ok' = FALSE
    /\ saver' = [saver EXCEPT !.pc = "dump"]
    /\ UNCHANGED << appVars, partVars, session, tempfiles, data_dir, data_files, saved,
                    engine, transcript >>

\* json.dump(manifest, f, indent=2), the close of f and the return
SaveDump ==
    /\ saver.pc = "dump"
    /\ manifest' = saver.entries
    /\ manifest_ok' = TRUE
    /\ saved' = Append(saved, saver.num)
    /\ saver' = NoSave
    /\ UNCHANGED << appVars, partVars, session, tempfiles, data_dir, data_files, engine,
                    transcript >>

\* the process dies during the call; what is on disk stays
Crash ==
    /\ saver.pc # "idle"
    /\ saver' = NoSave
    /\ UNCHANGED << appVars, partVars, session, tempfiles, fileVars, saved, engine,
                    transcript >>

\* the entry n is deleted by hand, between two saves: its files and its
\* record in the manifest
Delete(n) ==
    /\ saver.pc = "idle"
    /\ n \in data_dir
    /\ data_dir' = data_dir \ {n}
    /\ data_files' = data_files \ {text_dest(n), raw_dest(n)}
    /\ manifest' = SelectSeq(manifest, LAMBDA e : e.id # n)
    /\ UNCHANGED << appVars, session, tempfiles, manifest_ok, callVars >>

\* --------------------------------------------------- do_transcribe thread
othVars == << config, taps, is_recording, hold_key_pressed, recording,
              audio_data, stream, streams, timers, session, armedBy, endedBy,
              callVars >>

\* the branch on result['action'] for the thread of session t
dispatch(t, result) ==
    CASE result.action = "save" ->
           save_training_data(t, result.text, threads[t].text,
                              threads[t].duration, result.was_edited)
      [] result.action = "copy" ->
           UNCHANGED << tempfiles, fileVars >>
      [] OTHER ->
           /\ tempfiles' = tempfiles \ {t}
           /\ UNCHANGED fileVars

\* text = transcribe(audio_path) has ended with r.  A raise ends the thread
\* there; an empty text goes through os.unlink, the notification and
\* update_status("ready"); any other text opens the popup.
TranscribeEnds_popupalways(t, r) ==
    /\ threads[t].pc = "transcribe"
    /\ IF r.raised
       THEN /\ threads' = [threads EXCEPT ![t] = NoThread]
            /\ UNCHANGED << status, tempfiles >>
       ELSE /\ threads' = [threads EXCEPT ![t].pc = "popup", ![t].text = r.text]
            /\ UNCHANGED << status, tempfiles >>
    /\ UNCHANGED << othVars, fileVars >>

TranscribeEnds(t, r) ==
    /\ threads[t].pc = "transcribe"
    /\ IF r.raised
       THEN /\ threads' = [threads EXCEPT ![t] = NoThread]
            /\ UNCHANGED << status, tempfiles >>
       ELSE IF r.text = <<>>
       THEN /\ threads' = [threads EXCEPT ![t] = NoThread]
            /\ tempfiles' = tempfiles \ {t}
            /\ update_status("ready")
       ELSE /\ threads' = [threads EXCEPT ![t].pc = "popup", ![t].text = r.text]
            /\ UNCHANGED << status, tempfiles >>
    /\ UNCHANGED << othVars, fileVars >>

\* what the engine can do in a call of transcribe
EngineRuns == [model_exists : BOOLEAN, returncode : {0, 1}, stdout : EngineOutputs]

ThreadTranscribe(t) ==
    \E e \in EngineRuns :
        TranscribeEnds(t, transcribe(e.model_exists, e.returncode, e.stdout))

\* show_transcription_popup(text, duration) has returned result: the branch
\* on its action and update_status("ready"), the last statement of
\* do_transcribe
PopupReturns(t, result) ==
    /\ threads[t].pc = "popup"
    /\ dispatch(t, result)
    /\ threads' = [threads EXCEPT ![t] = NoThread]
    /\ update_status("ready")
    /\ UNCHANGED othVars

ThreadPopup(t) ==
    \E result \in show_transcription_popup(threads[t].text) :
        PopupReturns(t, result)

\* ------------------------------------------------------------ calibration
\* WhisperDictateApp.setup_hotkeys: the taps after it ran with (tk, hk);
\* tapOk is whether CGEventTapCreate returned a tap.  A tap is never removed.
setup_hotkeys(tk, hk, tapOk, ts) ==
    IF Falsy(tk) /\ Falsy(hk) THEN ts
    ELSE IF ~tapOk THEN ts
    ELSE << [toggle_key |-> tk, hold_key |-> hk] >> \o ts

\* WhisperDictateApp.calibrate when capture_next_key returned both keys (it
\* returns without a change otherwise); the capture created a tap, so the
\* permission that setup_hotkeys needs is there
calibrate ==
    /\ Len(taps) < MaxTaps
    /\ \E tk \in CalibKeys, hk \in CalibKeys :
         /\ config' = [toggle_key |-> tk, hold_key |-> hk, calibrated |-> TRUE]
         /\ taps' = setup_hotkeys(tk, hk, TRUE, taps)
    /\ UNCHANGED << ctlVars, hold_key_pressed, timers, fileVars, callVars >>

\* ------------------------------------------------------------ behaviours
\* no Recorder._callback and no Recorder.stop in progress
NoCallback == [pc |-> "idle", block |-> 0]

CaptureAtRest ==
    /\ cb = NoCallback
    /\ stop_pc = "idle"
    /\ delivered = 0
    /\ armed_seen = <<>>
    /\ returned = <<>>

\* panokeet_v3.py: the modifier names, and the modifier lists of the bindings
\* explored (check_modifiers does not look at their order)
Mods == {"cmd", "shift", "opt", "ctrl"}
ModLists == { {}, {"cmd"}, {"cmd", "opt", "ctrl"} }

\* the "default" of Panokeet.load_config
V3_DEFAULT ==
    [toggle_key |-> 89, toggle_mods |-> {"cmd", "opt", "ctrl"},
     hold_key |-> 91, hold_mods |-> {"cmd", "opt", "ctrl"}]

\* Panokeet.load_config: the file with its missing keys filled in, or default
load_config(exists, file) ==
    IF ~exists THEN V3_DEFAULT
    ELSE [k \in DOMAIN V3_DEFAULT |->
            IF k \in DOMAIN file THEN file[k] ELSE V3_DEFAULT[k]]

\* no key handled yet
NoKey == [type |-> "none", keycode |-> None, flags |-> {}, branch |-> "none"]

\* Panokeet.__init__ of panokeet_v3.py for one content of CONFIG_FILE
V3Object(exists, file) ==
    [config |-> load_config(exists, file), hold_active |-> FALSE,
     from_file |-> exists, jobs |-> 0]

V3AtRest ==
    /\ v3 = V3Object(FALSE, <<>>)
    /\ key = NoKey

\* backend/server.py: None in temp_audio_path and in last_transcript
NoPath == 0
NoneText == << "None" >>

\* RecorderState.__init__, the fields the Recorder does not have
NoPending ==
    [temp_audio_path |-> NoPath, last_transcript |-> NoneText,
     last_duration |-> 0]

\* no request answered yet
NoReply ==
    [endpoint |-> "none", code |-> 0, status |-> "none", id |-> 0,
     transcribed |-> FALSE]

ServerAtRest ==
    /\ server = NoPending
    /\ reply = NoReply

\* dictate.py: threads of _stop_and_save explored at a time
MaxStoppers == 2

Stoppers == 1..MaxStoppers

\* no _stop_and_save thread in the slot
NoStopper == [pc |-> "none", path |-> 0]

\* DictationApp.__init__, with no key held down
DictateAtRest ==
    /\ dictate = [cmd_pressed |-> FALSE, numpad8_held |-> FALSE, down |-> {}]
    /\ stoppers = [i \in Stoppers |-> NoStopper]
    /\ handed = <<>>

\* panokeet_app.py: threads of _process_audio explored at a time
MaxProcs == 2

Procs == 1..MaxProcs

\* no _process_audio thread in the slot
NoProc == [pc |-> "none", session |-> 0, path |-> 0]

\* _pending_popup_data is None
NoPopupData == [session |-> 0, samples |-> <<>>]

\* PanokeetApp.__init__: no temp file, no popup data, no thread; files maps
\* every temp file to the session of the thread that wrote it and the samples
\* in it, entries lists what _save_training_data has written
PAppAtRest ==
    papp = [temp_audio_path |-> NoPath, pending |-> NoPopupData,
            status |-> "Ready", procs |-> [i \in Procs |-> NoProc],
            files |-> <<>>, entries |-> <<>>]

\* the parts driven on their own, untouched
PartsAtRest ==
    CaptureAtRest /\ V3AtRest /\ ServerAtRest /\ DictateAtRest /\ PAppAtRest

DEFAULT_CONFIG == [toggle_key |-> None, hold_key |-> None, calibrated |-> FALSE]

Init ==
    /\ config \in { DEFAULT_CONFIG,
                    [toggle_key |-> 89, hold_key |-> 91, calibrated |-> TRUE] }
    /\ \E tapOk \in BOOLEAN :
         taps = setup_hotkeys(config.toggle_key, config.hold_key, tapOk, <<>>)
    /\ is_recording = FALSE
    /\ hold_key_pressed = FALSE
    /\ status = "ready"
    /\ recording = FALSE
    /\ audio_data = <<>>
    /\ stream = NoStream
    /\ streams = << >>
    /\ timers = <<>>
    /\ threads = [t \in Sessions |-> NoThread]
    /\ tempfiles = {}
    /\ data_dir = {}
    /\ data_files = {}
    /\ manifest = <<>>
    /\ manifest_ok = TRUE
    /\ saver = NoSave
    /\ saved = <<>>
    /\ engine = NoEngine
    /\ transcript = NoTranscript
    /\ session = 0
    /\ armedBy = "none"
    /\ endedBy = "none"
    /\ PartsAtRest

Next ==
    \/ \E ev \in KeyEvents : KeyEvent(ev)
    \/ RunTimer
    \/ MenuToggle
    \/ AudioCallback
    \/ \E t \in Sessions : ThreadTranscribe(t)
    \/ \E t \in Sessions : ThreadPopup(t)
    \/ calibrate

Spec == Init /\ [][Next]_vars

\* ---------------------------------------------------------- recalibration
\* The application with "Calibrate Hotkeys..." chosen again while a tap is
\* installed.  setup_hotkeys keeps no reference to the tap it created before
\* and removes nothing from the run loop, so the new tap is one more.
MaxRecals == 1        \* calibrations on top of an installed tap

recalibrate ==
    /\ taps # <<>>
    /\ Len(taps) < MaxTaps + MaxRecals
    /\ \E tk \in CalibKeys, hk \in CalibKeys :
         /\ config' = [toggle_key |-> tk, hold_key |-> hk, calibrated |-> TRUE]
         /\ taps' = setup_hotkeys(tk, hk, TRUE, taps)
    /\ UNCHANGED << ctlVars, hold_key_pressed, timers, fileVars, callVars >>

RecalNext == Next \/ recalibrate

RecalSpec == Init /\ [][RecalNext]_vars

\* ------------------------------------------- the save branch of do_transcribe
\* do_transcribe with a review that answers 'save', the action its first
\* branch tests for (popup.py answers 'done', so the application as shipped
\* never takes the branch), and with writes of save_training_data that raise.
SaveAnswers(original) ==
    { [onDone(original, t) EXCEPT !.action = "save"] :
        t \in {original} \cup EditedTexts }

\* the statement of save_training_data that raises
WriteFailures == {"move", "text", "manifest"}

\* save_training_data up to the statement that raises: shutil.move (line
\* 200), text_dest.write_text (201) or the reading and writing of the
\* manifest (210-226)
save_raises(t, at, was_edited) ==
    LET num == next_number(data_dir)
    IN  CASE at = "move" ->
               UNCHANGED << tempfiles, fileVars >>
          [] at = "text" ->
               /\ tempfiles' = tempfiles \ {t}
               /\ data_dir' = data_dir \cup {num}
               /\ UNCHANGED << data_files, manifest, manifest_ok >>
          [] OTHER ->
               /\ tempfiles' = tempfiles \ {t}
               /\ data_dir' = data_dir \cup {num}
               /\ data_files' = data_files \cup {text_dest(num)} \cup
                                  (IF was_edited THEN {raw_dest(num)} ELSE {})
               /\ UNCHANGED << manifest, manifest_ok >>

\* the exception leaves save_training_data and then do_transcribe, which has
\* no handler: the thread ends before update_status("ready")
SaveRaises(t, result, at) ==
    /\ threads[t].pc = "popup"
    /\ result.action = "save"
    /\ save_raises(t, at, result.was_edited)
    /\ threads' = [threads EXCEPT ![t] = NoThread]
    /\ UNCHANGED << status, othVars >>

ThreadSaves(t) ==
    \E result \in SaveAnswers(threads[t].text) :
        \/ PopupReturns(t, result)
        \/ \E at \in WriteFailures : SaveRaises(t, result, at)

SaveFailNext == Next \/ \E t \in Sessions : ThreadSaves(t)

SaveFailSpec == Init /\ [][SaveFailNext]_vars

\* ------------------------------------------- an engine that does not end
\* The application with an engine process that may never exit.  transcribe
\* calls subprocess.run without a timeout, so the call of a thread whose
\* engine hangs never returns: the thread stays in it ("hung") for good.
\* Every other call of the engine ends, which the fairness condition says.
EngineHangs(t) ==
    /\ threads[t].pc = "transcribe"
    /\ threads' = [threads EXCEPT ![t].pc = "hung"]
    /\ UNCHANGED << status, tempfiles, othVars, fileVars >>

HangNext == Next \/ \E t \in Sessions : EngineHangs(t)

\* the engine of a thread either ends or is one that hangs
HangFair ==
    \A t \in Sessions : WF_vars(ThreadTranscribe(t) \/ EngineHangs(t))

HangSpec == Init /\ [][HangNext]_vars /\ HangFair

\* ------------------------------------------------ the training data store
\* save_training_data driven on its own: DATA_DIR holds the entries of earlier
\* runs, every session has left its temp file, and the saves, the deaths of
\* the process and the deletions by hand follow in any order.
AtRest ==
    /\ config = DEFAULT_CONFIG
    /\ taps = <<>>
    /\ is_recording = FALSE
    /\ hold_key_pressed = FALSE
    /\ status = "ready"
    /\ recording = FALSE
    /\ audio_data = <<>>
    /\ stream = NoStream
    /\ streams = << >>
    /\ timers = <<>>
    /\ threads = [t \in Sessions |-> NoThread]
    /\ session = 0
    /\ armedBy = "none"
    /\ endedBy = "none"

\* the manifest entries of the numbers in S, in ascending order
RECURSIVE EntriesOf(_)
EntriesOf(S) ==
    IF S = {} THEN <<>>
    ELSE Append(EntriesOf(S \ {Max(S)}), manifest_entry(Max(S), 1, FALSE))

StoreInit ==
    /\ AtRest
    /\ tempfiles = Sessions
    /\ data_dir \in SUBSET (1..MaxId)
    /\ data_files = { text_dest(n) : n \in data_dir }
    /\ manifest = EntriesOf(data_dir)
    /\ manifest_ok = TRUE
    /\ saver = NoSave
    /\ saved = <<>>
    /\ engine = NoEngine
    /\ transcript = NoTranscript
    /\ PartsAtRest

StoreNext ==
    \/ \E was_edited \in BOOLEAN : SaveCall(was_edited)
    \/ SaveMove
    \/ SaveText
    \/ SaveRaw
    \/ SaveLoad
    \/ SaveOpen
    \/ SaveDump
    \/ Crash
    \/ \E n \in 1..(MaxId + MaxSessions) : Delete(n)

StoreSpec == StoreInit /\ [][StoreNext]_vars

\* ------------------------------------------------- the Recorder on its own
\* start, stop and the audio callback of a Recorder whose caller keeps no
\* flag of its own: the calls come in any order
RecorderInit ==
    /\ AtRest
    /\ tempfiles = {}
    /\ data_dir = {}
    /\ data_files = {}
    /\ manifest = <<>>
    /\ manifest_ok = TRUE
    /\ saver = NoSave
    /\ saved = <<>>
    /\ engine = NoEngine
    /\ transcript = NoTranscript
    /\ PartsAtRest

restVars == << config, taps, is_recording, hold_key_pressed, status, timers,
               threads, armedBy, endedBy, fileVars, callVars >>

\* recorder.start()
RecStart(outcome) ==
    /\ session < MaxStarts
    /\ Recorder_start(outcome)
    /\ UNCHANGED << tempfiles, restVars >>

\* recorder.stop(): the temp file is written when there is audio
RecStop ==
    /\ Recorder_stop
    /\ tempfiles' = IF Recorder_stop_result THEN tempfiles \cup {session}
                    ELSE tempfiles
    /\ UNCHANGED << session, restVars >>

RecorderNext ==
    \/ \E outcome \in StartOutcomes : RecStart(outcome)
    \/ RecStop
    \/ AudioCallback

RecorderSpec == RecorderInit /\ [][RecorderNext]_vars

\* ------------------------------------- the Recorder, statement by statement
\* One Recorder used as its caller uses it, start and stop in turn on the main
\* thread, with _callback running on the audio thread between any two of their
\* statements.  start ends with stream.start(), so no block is delivered
\* before its last statement; _callback is its test and its append; stop is
\* the assignment of line 46 and then the rest, which begins with
\* stream.stop().  PortAudio runs the callbacks of a stream one after another.
MaxDeliveries == 3    \* blocks a stream delivers in one session

\* the application and the store, which the parts on their own leave alone
idleVars == << config, taps, is_recording, hold_key_pressed, status, timers,
               threads, armedBy, endedBy, fileVars, saver, saved, engine,
               transcript >>

\* the other parts, which the Recorder on its own leaves alone
otherParts == << v3, key, server, reply, dictate, stoppers, handed, papp >>

CaptureInit ==
    /\ AtRest
    /\ tempfiles = {}
    /\ data_dir = {}
    /\ data_files = {}
    /\ manifest = <<>>
    /\ manifest_ok = TRUE
    /\ saver = NoSave
    /\ saved = <<>>
    /\ engine = NoEngine
    /\ transcript = NoTranscript
    /\ PartsAtRest

\* recorder.start(), while no session is open
CaptureStart ==
    /\ session < MaxStarts
    /\ ~recording
    /\ stop_pc \in {"idle", "returned"}
    /\ Recorder_start("ok")
    /\ stop_pc' = "idle"
    /\ delivered' = 0
    /\ armed_seen' = <<>>
    /\ returned' = <<>>
    /\ UNCHANGED << cb, tempfiles, idleVars,
                    otherParts >>

\* the stream calls _callback with its next block; "if self.recording:"
CallbackTest ==
    /\ stream \in DOMAIN streams
    /\ streams[stream]
    /\ cb.pc = "idle"
    /\ delivered < MaxDeliveries
    /\ delivered' = delivered + 1
    /\ cb' = [pc |-> IF recording THEN "append" ELSE "idle",
              block |-> delivered + 1]
    /\ armed_seen' = IF recording THEN Append(armed_seen, delivered + 1)
                     ELSE armed_seen
    /\ UNCHANGED << recording, audio_data, stream, streams, session, stop_pc,
                    returned, tempfiles, idleVars,
                    otherParts >>

\* "self.audio_data.append(indata.copy())" and the return of the callback
CallbackAppend ==
    /\ cb.pc = "append"
    /\ audio_data' = Append(audio_data, cb.block)
    /\ cb' = NoCallback
    /\ UNCHANGED << recording, stream, streams, session, stop_pc, delivered,
                    armed_seen, returned, tempfiles, idleVars,
                    otherParts >>

\* recorder.stop(): "self.recording = False"
StopClears ==
    /\ recording
    /\ stop_pc = "idle"
    /\ recording' = FALSE
    /\ stop_pc' = "cleared"
    /\ UNCHANGED << audio_data, stream, streams, session, cb, delivered,
                    armed_seen, returned, tempfiles, idleVars,
                    otherParts >>

\* a stream.stop() that returns while the callback is still running
stream_stop_returns_early == TRUE

\* stream.stop() returns once the callback in progress has returned
stream_stop_returns == cb.pc = "idle"

\* the rest of recorder.stop(): stream.stop(), stream.close(), the test of
\* the buffer, np.concatenate and the temp file
StopReturns ==
    /\ stop_pc = "cleared"
    /\ stream_stop_returns
    /\ Recorder_stop
    /\ returned' = audio_data
    /\ tempfiles' = IF Recorder_stop_result THEN tempfiles \cup {session}
                    ELSE tempfiles
    /\ stop_pc' = "returned"
    /\ UNCHANGED << session, cb, delivered, armed_seen, idleVars,
                    otherParts >>

CaptureNext ==
    \/ CaptureStart
    \/ CallbackTest
    \/ CallbackAppend
    \/ StopClears
    \/ StopReturns

CaptureSpec == CaptureInit /\ [][CaptureNext]_vars

\* ------------------------------------------------- panokeet_v3.py hotkeys
\* The terminal program of panokeet_v3.py: its Panokeet object keeps the
\* fields recording, audio_data and stream itself and handles the key events
\* of two global monitors on the main thread.
\* the contents of CONFIG_FILE explored: both bindings, or as panokeet_v2.py
\* wrote it, the two keycodes only
ConfigFiles ==
    { [k \in D |-> full[k]] :
        full \in [toggle_key : {89}, toggle_mods : ModLists,
                  hold_key : {91}, hold_mods : ModLists],
        D \in { DOMAIN V3_DEFAULT, {"toggle_key", "hold_key"} } }

\* the modifier states of the key events explored
FlagSets ==
    { {}, {"cmd"}, {"cmd", "shift"}, {"cmd", "opt", "ctrl"}, Mods }

V3Events ==
    [type : {"down", "up"}, keycode : Keycodes, flags : FlagSets]

V3Init ==
    /\ AtRest
    /\ tempfiles = {}
    /\ data_dir = {}
    /\ data_files = {}
    /\ manifest = <<>>
    /\ manifest_ok = TRUE
    /\ saver = NoSave
    /\ saved = <<>>
    /\ engine = NoEngine
    /\ transcript = NoTranscript
    /\ CaptureAtRest
    /\ ServerAtRest
    /\ DictateAtRest
    /\ PAppAtRest
    /\ \E exists \in BOOLEAN, file \in ConfigFiles : v3 = V3Object(exists, file)
    /\ key = NoKey

\* Panokeet.check_modifiers: every required modifier is among the flags
check_modifiers(flags, required_mods) ==
    \A mod \in required_mods : mod \in flags

\* Panokeet.start_recording
v3_start_recording(outcome) ==
    IF recording
    THEN UNCHANGED << recording, audio_data, stream, streams, session >>
    ELSE Recorder_start(outcome)

\* Panokeet.stop_recording: a _process_audio thread begins when there is audio
v3_stop_recording(hold_active) ==
    IF ~recording
    THEN /\ v3' = [v3 EXCEPT !.hold_active = hold_active]
         /\ UNCHANGED << recording, audio_data, stream, streams >>
    ELSE /\ Recorder_stop
         /\ v3' = [v3 EXCEPT !.hold_active = hold_active,
                             !.jobs = IF audio_data # <<>> THEN @ + 1 ELSE @]

\* the branch of handle_key_down that runs for a key event
DownBranch(ev) ==
    IF /\ ev.keycode = v3.config.toggle_key
       /\ check_modifiers(ev.flags, v3.config.toggle_mods)
    THEN "toggle"
    ELSE IF /\ ev.keycode = v3.config.hold_key
            /\ check_modifiers(ev.flags, v3.config.hold_mods)
         THEN "hold"
         ELSE "none"

\* Panokeet.handle_key_down
handle_key_down(ev, outcome) ==
    /\ ev.type = "down"
    /\ ~recording => session < MaxStarts
    /\ key' = [type |-> "down", keycode |-> ev.keycode, flags |-> ev.flags,
               branch |-> DownBranch(ev)]
    /\ CASE DownBranch(ev) = "toggle" ->
              IF recording
              THEN v3_stop_recording(v3.hold_active) /\ UNCHANGED session
              ELSE v3_start_recording(outcome) /\ UNCHANGED v3
         [] DownBranch(ev) = "hold" ->
              IF ~v3.hold_active
              THEN /\ v3' = [v3 EXCEPT !.hold_active = TRUE]
                   /\ v3_start_recording(outcome)
              ELSE UNCHANGED << v3, recording, audio_data, stream, streams,
                                session >>
         [] OTHER ->
              UNCHANGED << v3, recording, audio_data, stream, streams,
                           session >>
    /\ UNCHANGED << captureVars, server, reply, dictate, stoppers, handed,
                    papp, tempfiles, idleVars >>

\* Panokeet.handle_key_up
handle_key_up(ev) ==
    /\ ev.type = "up"
    /\ IF ev.keycode = v3.config.hold_key /\ v3.hold_active
       THEN /\ key' = [type |-> "up", keycode |-> ev.keycode,
                       flags |-> ev.flags, branch |-> "hold"]
            /\ v3_stop_recording(FALSE)
       ELSE /\ key' = [type |-> "up", keycode |-> ev.keycode,
                       flags |-> ev.flags, branch |-> "none"]
            /\ UNCHANGED << v3, recording, audio_data, stream, streams >>
    /\ UNCHANGED << session, captureVars, server, reply, dictate, stoppers,
                    handed, papp, tempfiles, idleVars >>

V3Next ==
    \/ \E ev \in V3Events, outcome \in StartOutcomes :
          handle_key_down(ev, outcome)
    \/ \E ev \in V3Events : handle_key_up(ev)
    \/ AudioCallback

V3Spec == V3Init /\ [][V3Next]_vars

\* ---------------------------------------------------- backend/server.py
\* The FastAPI server: one RecorderState, requests handled one at a time on
\* the event loop (the handlers are async functions without an await, so each
\* runs to its end), the audio callback on the audio thread.
ServerInit ==
    /\ AtRest
    /\ tempfiles = {}
    /\ data_dir = {}
    /\ data_files = {}
    /\ manifest = <<>>
    /\ manifest_ok = TRUE
    /\ saver = NoSave
    /\ saved = <<>>
    /\ engine = NoEngine
    /\ transcript = NoTranscript
    /\ PartsAtRest

\* what the server never touches
clientVars == << config, taps, is_recording, hold_key_pressed, status, timers,
                threads, armedBy, endedBy, manifest, manifest_ok, saver, saved,
                engine, transcript, captureVars, v3, key, dictate, stoppers,
                handed, papp >>

\* Python truth of a transcript: neither None nor ''
Truthy(text) == text # NoneText /\ text # <<>>

Reply(ep, code, st, id, called) ==
    [endpoint |-> ep, code |-> code, status |-> st, id |-> id,
     transcribed |-> called]

\* what RecorderState.start_recording meets: "no_device" (no input device
\* listed), "open_fails" (sd.InputStream raises), "start_fails"
\* (stream.start raises) or "ok"
ServerStarts == {"ok", "no_device", "open_fails", "start_fails"}

\* RecorderState.start_recording when not recording; success iff "ok"
RecorderState_start_recording(outcome) ==
    /\ audio_data' = <<>>
    /\ server' = [server EXCEPT !.temp_audio_path = NoPath,
                                !.last_transcript = NoneText]
    /\ session' = session + 1
    /\ recording' = (outcome = "ok")
    /\ IF outcome \in {"ok", "start_fails"}
       THEN /\ stream' = session + 1
            /\ streams' = [h \in DOMAIN streams \cup {session + 1} |->
                             IF h = session + 1 THEN outcome = "ok"
                             ELSE streams[h]]
       ELSE UNCHANGED << stream, streams >>

\* what the engine does in RecorderState.transcribe: it exits with 0, exits
\* with another status, or runs into the timeout of 120 s
ServerRuns == [outcome : {"exit0", "exit1", "timeout"}, stdout : EngineOutputs]

\* RecorderState.transcribe: the value returned (NoneText for None) and the
\* new last_transcript
RecorderState_transcribe(run) ==
    IF run.outcome = "exit0"
    THEN [value |-> Normalize(run.stdout), last |-> Normalize(run.stdout)]
    ELSE [value |-> NoneText, last |-> server.last_transcript]

\* the part of the two stopping endpoints after "if recorder.recording":
\* stop_recording, transcribe and, without a transcript, cleanup_temp
StopAndTranscribe(run, noaudio, nospeech, done) ==
    /\ Recorder_stop
    /\ UNCHANGED << session, data_dir, data_files >>
    /\ IF audio_data = <<>>
       THEN /\ reply' = noaudio
            /\ UNCHANGED << server, tempfiles >>
       ELSE LET r == RecorderState_transcribe(run)
            IN  IF Truthy(r.value)
                THEN /\ tempfiles' = tempfiles \cup {session}
                     /\ server' = [temp_audio_path |-> session,
                                   last_transcript |-> r.last,
                                   last_duration |-> 1]
                     /\ reply' = done
                ELSE /\ tempfiles' = tempfiles
                     /\ server' = [temp_audio_path |-> NoPath,
                                   last_transcript |-> r.last,
                                   last_duration |-> 1]
                     /\ reply' = nospeech

\* POST /record/start without the test of recorder.recording
PostRecordStart_nocheck(outcome) ==
    /\ ~recording => session < MaxStarts
    /\ IF recording
       THEN /\ reply' = Reply("/record/start", 200, "error", 0, FALSE)
            /\ UNCHANGED << recording, audio_data, stream, streams, session,
                            server >>
       ELSE /\ RecorderState_start_recording(outcome)
            /\ reply' = Reply("/record/start", 200,
                              IF outcome = "ok" THEN "recording" ELSE "error",
                              0, FALSE)
    /\ UNCHANGED << tempfiles, data_dir, data_files, clientVars >>

\* POST /record/start
PostRecordStart(outcome) ==
    /\ ~recording => session < MaxStarts
    /\ IF recording
       THEN /\ reply' = Reply("/record/start", 200, "already_recording", 0,
                              FALSE)
            /\ UNCHANGED << recording, audio_data, stream, streams, session,
                            server >>
       ELSE /\ RecorderState_start_recording(outcome)
            /\ reply' = Reply("/record/start", 200,
                              IF outcome = "ok" THEN "recording" ELSE "error",
                              0, FALSE)
    /\ UNCHANGED << tempfiles, data_dir, data_files, clientVars >>

\* POST /record/stop
PostRecordStop(run) ==
    /\ IF ~recording
       THEN /\ reply' = Reply("/record/stop", 400, "Not recording", 0, FALSE)
            /\ UNCHANGED << recording, audio_data, stream, streams, session,
                            server, tempfiles, data_dir, data_files >>
       ELSE StopAndTranscribe(run,
                Reply("/record/stop", 400, "No audio captured", 0, FALSE),
                Reply("/record/stop", 400, "No speech detected", 0, TRUE),
                Reply("/record/stop", 200, "transcribed", 0, TRUE))
    /\ UNCHANGED clientVars

\* POST /toggle
PostToggle(outcome, run) ==
    /\ ~recording => session < MaxStarts
    /\ IF recording
       THEN StopAndTranscribe(run,
                Reply("/toggle", 200, "No audio", 0, FALSE),
                Reply("/toggle", 200, "No speech", 0, TRUE),
                Reply("/toggle", 200, "transcribed", 0, TRUE))
       ELSE /\ RecorderState_start_recording(outcome)
            /\ reply' = Reply("/toggle", 200,
                              IF outcome = "ok" THEN "recording" ELSE "error",
                              0, FALSE)
            /\ UNCHANGED << tempfiles, data_dir, data_files >>
    /\ UNCHANGED clientVars

\* audio_NNNNNN.json of the server
json_dest(num) == << "json", num >>

\* POST /save
PostSave ==
    LET num == next_number(data_dir)
    IN  /\ IF /\ server.temp_audio_path # NoPath
              /\ server.temp_audio_path \in tempfiles
           THEN /\ tempfiles' = tempfiles \ {server.temp_audio_path}
                /\ data_dir' = data_dir \cup {num}
                /\ server' = [server EXCEPT !.temp_audio_path = NoPath]
           ELSE UNCHANGED << tempfiles, data_dir, server >>
        /\ data_files' = data_files \cup {json_dest(num), text_dest(num)}
        /\ reply' = Reply("/save", 200, "saved", num, FALSE)
        /\ UNCHANGED << recording, audio_data, stream, streams, session,
                        clientVars >>

\* RecorderState.cleanup_temp that removes the file and keeps its name
cleanup_temp_keeps_path ==
    IF /\ server.temp_audio_path # NoPath
       /\ server.temp_audio_path \in tempfiles
    THEN /\ tempfiles' = tempfiles \ {server.temp_audio_path}
         /\ UNCHANGED server
    ELSE UNCHANGED << tempfiles, server >>

\* RecorderState.cleanup_temp
cleanup_temp ==
    IF /\ server.temp_audio_path # NoPath
       /\ server.temp_audio_path \in tempfiles
    THEN /\ tempfiles' = tempfiles \ {server.temp_audio_path}
         /\ server' = [server EXCEPT !.temp_audio_path = NoPath]
    ELSE UNCHANGED << tempfiles, server >>

\* POST /cancel
PostCancel ==
    /\ cleanup_temp
    /\ reply' = Reply("/cancel", 200, "cancelled", 0, FALSE)
    /\ UNCHANGED << recording, audio_data, stream, streams, session, data_dir,
                    data_files, clientVars >>

\* GET /pending
GetPending ==
    /\ reply' = Reply("/pending", 200,
                      IF /\ Truthy(server.last_transcript)
                         /\ server.temp_audio_path # NoPath
                      THEN "pending" ELSE "not pending", 0, FALSE)
    /\ UNCHANGED << recording, audio_data, stream, streams, session, server,
                    tempfiles, data_dir, data_files, clientVars >>

\* GET /status
GetStatus ==
    /\ reply' = Reply("/status", 200,
                      IF recording THEN "recording" ELSE "ready", 0, FALSE)
    /\ UNCHANGED << recording, audio_data, stream, streams, session, server,
                    tempfiles, data_dir, data_files, clientVars >>

ServerNext ==
    \/ \E outcome \in ServerStarts : PostRecordStart(outcome)
    \/ \E run \in ServerRuns : PostRecordStop(run)
    \/ \E outcome \in ServerStarts, run \in ServerRuns : PostToggle(outcome, run)
    \/ PostSave
    \/ PostCancel
    \/ GetPending
    \/ GetStatus
    \/ AudioCallback

ServerSpec == ServerInit /\ [][ServerNext]_vars

\* ------------------------------------------------------------ dictate.py
\* The terminal program of dictate.py.  The pynput listener thread runs
\* on_press and on_release one after the other (each is one action, with
\* _start_recording and Recorder.start inside); every stop is a new thread
\* running _stop_and_save, which goes on statement by statement beside the
\* listener and the other stop threads; the audio thread runs _callback.
\* The audio stream always opens here.
DictKeys == {"cmd", "num7", "num8"}

DictateInit ==
    /\ AtRest
    /\ tempfiles = {}
    /\ data_dir = {}
    /\ data_files = {}
    /\ manifest = <<>>
    /\ manifest_ok = TRUE
    /\ saver = NoSave
    /\ saved = <<>>
    /\ engine = NoEngine
    /\ transcript = NoTranscript
    /\ PartsAtRest

\* what dictate.py never touches
dictateIdle == << config, taps, hold_key_pressed, timers, threads, endedBy,
                 manifest, manifest_ok, saver, saved, engine, transcript,
                 captureVars, v3, key, server, reply, papp >>

FreeStoppers == { i \in Stoppers : stoppers[i].pc = "none" }

\* Thread(target=self._stop_and_save, daemon=True).start()
SpawnStopper ==
    /\ FreeStoppers # {}
    /\ LET i == CHOOSE j \in FreeStoppers : \A k \in FreeStoppers : j <= k
       IN  stoppers' = [stoppers EXCEPT ![i] = [pc |-> "test", path |-> 0]]

\* DictationApp._start_recording(mode) when not recording
StartDictation(mode) ==
    /\ session < MaxSessions
    /\ is_recording' = TRUE
    /\ status' = "recording"
    /\ armedBy' = mode
    /\ Recorder_start("ok")

\* DictationApp.on_press
on_press(k) ==
    LET cmd == dictate.cmd_pressed \/ k = "cmd"
    IN  /\ CASE cmd /\ k = "num7" /\ is_recording ->
                  /\ SpawnStopper
                  /\ dictate' = [dictate EXCEPT !.down = @ \cup {k}]
                  /\ UNCHANGED << is_recording, status, armedBy, recording,
                                  audio_data, stream, streams, session >>
             [] cmd /\ k = "num7" /\ ~is_recording ->
                  /\ StartDictation("toggle")
                  /\ dictate' = [dictate EXCEPT !.down = @ \cup {k}]
                  /\ UNCHANGED stoppers
             [] cmd /\ k = "num8" /\ ~is_recording ->
                  /\ StartDictation("hold")
                  /\ dictate' = [dictate EXCEPT !.down = @ \cup {k},
                                                !.numpad8_held = TRUE]
                  /\ UNCHANGED stoppers
             [] OTHER ->
                  /\ dictate' = [dictate EXCEPT !.down = @ \cup {k},
                                                !.cmd_pressed = cmd]
                  /\ UNCHANGED << is_recording, status, armedBy, recording,
                                  audio_data, stream, streams, session,
                                  stoppers >>
        /\ UNCHANGED << handed, tempfiles, data_dir, data_files, dictateIdle >>

\* DictationApp.on_release of a key that is down
on_release(k) ==
    /\ k \in dictate.down
    /\ IF k \in {"cmd", "num8"} /\ dictate.numpad8_held /\ is_recording
       THEN /\ SpawnStopper
            /\ dictate' = [dictate EXCEPT
                             !.down = @ \ {k},
                             !.numpad8_held = FALSE,
                             !.cmd_pressed = IF k = "cmd" THEN FALSE ELSE @]
       ELSE /\ dictate' = [dictate EXCEPT
                             !.down = @ \ {k},
                             !.cmd_pressed = IF k = "cmd" THEN FALSE ELSE @]
            /\ UNCHANGED stoppers
    /\ UNCHANGED << is_recording, status, armedBy, recording, audio_data,
                    stream, streams, session, handed, tempfiles, data_dir,
                    data_files, dictateIdle >>

\* _stop_and_save: "if not self.is_recording: return"
StopperTest(i) ==
    /\ stoppers[i].pc = "test"
    /\ stoppers' = [stoppers EXCEPT ![i] =
                      IF is_recording THEN [pc |-> "clear", path |-> 0]
                      ELSE NoStopper]
    /\ UNCHANGED << is_recording, status, armedBy, recording, audio_data,
                    stream, streams, session, dictate, handed, tempfiles,
                    data_dir, data_files, dictateIdle >>

\* "self.is_recording = False" and "self.status = 'transcribing'"
StopperClear(i) ==
    /\ stoppers[i].pc = "clear"
    /\ is_recording' = FALSE
    /\ status' = "transcribing"
    /\ stoppers' = [stoppers EXCEPT ![i].pc = "stop"]
    /\ UNCHANGED << armedBy, recording, audio_data, stream, streams, session,
                    dictate, handed, tempfiles, data_dir, data_files,
                    dictateIdle >>

\* Recorder.stop: "self.recording = False"
StopperFlag(i) ==
    /\ stoppers[i].pc = "stop"
    /\ recording' = FALSE
    /\ stoppers' = [stoppers EXCEPT ![i].pc = "close"]
    /\ UNCHANGED << is_recording, status, armedBy, audio_data, stream, streams,
                    session, dictate, handed, tempfiles, data_dir, data_files,
                    dictateIdle >>

\* the rest of Recorder.stop: the stream in self.stream is stopped and
\* closed, and the buffer, if it holds anything, goes to a temp file; without
\* audio _stop_and_save sets the status to 'ready' and returns
StopperClose(i) ==
    /\ stoppers[i].pc = "close"
    /\ stream' = NoStream
    /\ streams' = [h \in DOMAIN streams \ {stream} |-> streams[h]]
    /\ IF audio_data = <<>>
       THEN /\ status' = "ready"
            /\ stoppers' = [stoppers EXCEPT ![i] = NoStopper]
            /\ UNCHANGED << handed, tempfiles >>
       ELSE /\ handed' = Append(handed, session)
            /\ tempfiles' = tempfiles \cup {Len(handed) + 1}
            /\ stoppers' = [stoppers EXCEPT
                              ![i] = [pc |-> "transcribe",
                                      path |-> Len(handed) + 1]]
            /\ UNCHANGED status
    /\ UNCHANGED << is_recording, armedBy, recording, audio_data, session,
                    dictate, data_dir, data_files, dictateIdle >>

\* what the engine can do in a call of transcribe of dictate.py
DictateRuns == [returncode : {0, 1}, stdout : EngineOutputs]

\* transcribe has returned: the entry is saved and the status is 'done', or
\* without a text the temp file is removed and the status is 'ready'
StopperTranscribed(i) ==
    /\ stoppers[i].pc = "transcribe"
    /\ \E run \in DictateRuns :
         LET text == transcribe(TRUE, run.returncode, run.stdout).text
             num == next_number(data_dir)
         IN  /\ tempfiles' = tempfiles \ {stoppers[i].path}
             /\ IF text # <<>>
                THEN /\ data_dir' = data_dir \cup {num}
                     /\ data_files' = data_files \cup {text_dest(num)}
                     /\ status' = "done"
                     /\ stoppers' = [stoppers EXCEPT ![i].pc = "sleep"]
                ELSE /\ status' = "ready"
                     /\ stoppers' = [stoppers EXCEPT ![i] = NoStopper]
                     /\ UNCHANGED << data_dir, data_files >>
    /\ UNCHANGED << is_recording, armedBy, recording, audio_data, stream,
                    streams, session, dictate, handed, dictateIdle >>

\* time.sleep(2) is over: "self.status = 'ready'"
StopperReady(i) ==
    /\ stoppers[i].pc = "sleep"
    /\ status' = "ready"
    /\ stoppers' = [stoppers EXCEPT ![i] = NoStopper]
    /\ UNCHANGED << is_recording, armedBy, recording, audio_data, stream,
                    streams, session, dictate, handed, tempfiles, data_dir,
                    data_files, dictateIdle >>

DictateNext ==
    \/ \E k \in DictKeys : on_press(k)
    \/ \E k \in DictKeys : on_release(k)
    \/ \E i \in Stoppers : StopperTest(i)
    \/ \E i \in Stoppers : StopperClear(i)
    \/ \E i \in Stoppers : StopperFlag(i)
    \/ \E i \in Stoppers : StopperClose(i)
    \/ \E i \in Stoppers : StopperTranscribed(i)
    \/ \E i \in Stoppers : StopperReady(i)
    \/ AudioCallback

DictateSpec == DictateInit /\ [][DictateNext]_vars

\* ------------------------------------------------------- panokeet_app.py
\* The menu-bar program of panokeet_app.py.  start_recording, stop_recording
\* and the popup run on the main thread (each is one action; the popup is
\* taken with its answer in one step); every stop with audio starts a thread
\* running _process_audio beside them; the audio thread runs the callback.
\* A transcript is written as the session whose stop started the thread, a
\* block of samples as the session whose stream delivered it.
PAppInit == DictateInit

\* what panokeet_app.py never touches
pappIdle == << config, taps, is_recording, hold_key_pressed, status, timers,
              threads, armedBy, endedBy, manifest, manifest_ok, saver, saved,
              engine, transcript, captureVars, v3, key, server, reply, dictate,
              stoppers, handed >>

\* PanokeetApp.start_recording when not recording
PAppStart ==
    /\ ~recording
    /\ session < MaxSessions
    /\ Recorder_start("ok")
    /\ papp' = [papp EXCEPT !.status = "Recording..."]
    /\ UNCHANGED << tempfiles, data_dir, data_files, pappIdle >>

FreeProcs == { i \in Procs : papp.procs[i].pc = "none" }

\* PanokeetApp.stop_recording when recording: with audio in the buffer a
\* thread is started on _process_audio
PAppStop ==
    /\ recording
    /\ Recorder_stop
    /\ IF audio_data = <<>>
       THEN papp' = [papp EXCEPT !.status = "Ready"]
       ELSE /\ FreeProcs # {}
            /\ LET i == CHOOSE j \in FreeProcs : \A k \in FreeProcs : j <= k
               IN  papp' = [papp EXCEPT
                             !.status = "Transcribing...",
                             !.procs[i] = [pc |-> "concat", session |-> session,
                                           path |-> 0]]
    /\ UNCHANGED << session, tempfiles, data_dir, data_files, pappIdle >>

\* _process_audio up to the call of the engine: np.concatenate of the shared
\* buffer (a ValueError on an empty list ends the thread), the temp file is
\* made, its name stored in self.temp_audio_path, the samples written
ProcConcat(i) ==
    /\ papp.procs[i].pc = "concat"
    /\ IF audio_data = <<>>
       THEN /\ papp' = [papp EXCEPT !.procs[i] = NoProc]
            /\ UNCHANGED tempfiles
       ELSE LET path == Len(papp.files) + 1
            IN  /\ tempfiles' = tempfiles \cup {path}
                /\ papp' = [papp EXCEPT
                              !.temp_audio_path = path,
                              !.files = Append(@,
                                  [session |-> papp.procs[i].session,
                                   samples |-> audio_data]),
                              !.procs[i].pc = "run",
                              !.procs[i].path = path]
    /\ UNCHANGED << recording, audio_data, stream, streams, session, data_dir,
                    data_files, pappIdle >>

\* subprocess.run has returned in _process_audio: with a text the popup data
\* is stored for the main thread, without one the temp file is removed,
\* self.temp_audio_path cleared and the status set to Ready
ProcReturns(i, speech) ==
    /\ papp.procs[i].pc = "run"
    /\ IF speech
       THEN /\ papp' = [papp EXCEPT
                          !.pending = [session |-> papp.procs[i].session,
                                       samples |->
                                         papp.files[papp.procs[i].path].samples],
                          !.procs[i] = NoProc]
            /\ UNCHANGED tempfiles
       ELSE /\ tempfiles' = tempfiles \ {papp.procs[i].path}
            /\ papp' = [papp EXCEPT !.temp_audio_path = NoPath,
                                    !.status = "Ready",
                                    !.procs[i] = NoProc]
    /\ UNCHANGED << recording, audio_data, stream, streams, session, data_dir,
                    data_files, pappIdle >>

\* the audio of an entry saved without a wav file
NoAudio == [session |-> 0, samples |-> <<>>]

\* _check_pending_popup with popup data, and _show_popup: on 'done'
\* _save_training_data moves the file named by self.temp_audio_path, if
\* there is one, and writes the json and the text; on a cancel that file is
\* removed; then self.temp_audio_path is cleared and the status set
PAppPopup(action) ==
    /\ papp.pending # NoPopupData
    /\ LET path == papp.temp_audio_path
           there == path # NoPath /\ path \in tempfiles
           num == next_number(data_dir)
       IN  /\ tempfiles' = IF there THEN tempfiles \ {path} ELSE tempfiles
           /\ IF action = "done"
              THEN /\ data_dir' = IF there THEN data_dir \cup {num}
                                  ELSE data_dir
                   /\ data_files' = data_files \cup
                                       {json_dest(num), text_dest(num)}
                   /\ papp' = [papp EXCEPT
                                 !.pending = NoPopupData,
                                 !.temp_audio_path = NoPath,
                                 !.status = "Ready",
                                 !.entries = Append(@,
                                     [transcript |-> papp.pending,
                                      audio |-> IF there THEN papp.files[path]
                                                ELSE NoAudio])]
              ELSE /\ papp' = [papp EXCEPT !.pending = NoPopupData,
                                           !.temp_audio_path = NoPath,
                                           !.status = "Ready"]
                   /\ UNCHANGED << data_dir, data_files >>
    /\ UNCHANGED << recording, audio_data, stream, streams, session, pappIdle >>

PAppNext ==
    \/ PAppStart
    \/ PAppStop
    \/ \E i \in Procs : ProcConcat(i)
    \/ \E i \in Procs, speech \in BOOLEAN : ProcReturns(i, speech)
    \/ \E action \in {"done", "cancel"} : PAppPopup(action)
    \/ AudioCallback

PAppSpec == PAppInit /\ [][PAppNext]_vars

\* --------------------------------------------------- transcribe on its own
\* one call of transcribe for every engine behaviour within the bounds
RECURSIVE Strings(_)
Strings(n) ==
    IF n = 0 THEN { <<>> }
    ELSE LET shorter == Strings(n - 1)
         IN  shorter \cup { Append(s, c) : s \in shorter, c \in Chars }

TranscribeInit ==
    /\ AtRest
    /\ tempfiles = {}
    /\ data_dir = {}
    /\ data_files = {}
    /\ manifest = <<>>
    /\ manifest_ok = TRUE
    /\ saver = NoSave
    /\ saved = <<>>
    /\ engine \in [model_exists : BOOLEAN, returncode : {0, 1},
                    stdout : Strings(MaxOut) \cup EngineOutputs]
    /\ transcript = [NoTranscript EXCEPT !.pc = "called"]
    /\ PartsAtRest

\* the call returns or raises
TranscribeReturn ==
    /\ transcript.pc = "called"
    /\ LET r == transcribe(engine.model_exists, engine.returncode, engine.stdout)
       IN  transcript' = [pc |-> IF r.raised THEN "raised" ELSE "returned",
                          text |-> r.text]
    /\ UNCHANGED << appVars, partVars, session, tempfiles, fileVars, saver, saved, engine >>

TranscribeNext == TranscribeReturn

TranscribeSpec == TranscribeInit /\ [][TranscribeNext]_vars

\* ------------------------------------------------------------ vocabulary
\* a do_transcribe thread that has been started and has not ended
InFlight(t) == threads[t].pc \in {"transcribe", "popup"}

Idle == ~is_recording /\ status = "ready" /\ \A t \in Sessions : ~InFlight(t)

Transcribing == ~is_recording /\ \E t \in Sessions : InFlight(t)

\* the step in which the main run loop runs the queued call cmd
Ran(cmd) == timers # <<>> /\ Head(timers) = cmd /\ timers' = Tail(timers)

\* what the installed taps do with the key event ev in the current state
Emits(ev) == Deliver(taps, ev, [latch |-> hold_key_pressed, cmds |-> <<>>])

\* k is the hold key, and not the toggle key, of every installed tap
IsHoldKey(k) ==
    /\ taps # <<>>
    /\ \A i \in 1..Len(taps) : taps[i].hold_key = k /\ taps[i].toggle_key # k

HoldDowns == { ev \in KeyEvents : ev.type = "Down" /\ IsHoldKey(ev.keycode) }
HoldUps == { ev \in KeyEvents : ev.type = "Up" /\ IsHoldKey(ev.keycode) }

\* ---------------------------------------------------------------- claims

\* C1: at most one recording session is active at a time: never more than one
\* audio stream is open, it is the recorder's, every buffered block comes from
\* the latest session, and a start request run while a session is recording
\* changes nothing (no second stream, the buffer is not reset).
C1_OneStream ==
    /\ Cardinality(DOMAIN streams) <= 1
    /\ DOMAIN streams \subseteq {stream}
    /\ \A i \in 1..Len(audio_data) : audio_data[i] = session

C1_StartWhileRecording == (is_recording /\ Ran("start")) => UNCHANGED ctlVars

C1_SingleSession == [](C1_OneStream) /\ [][C1_StartWhileRecording]_vars

\* the hold key went down during the only session so far, its start request
\* has been run, and the session's stream and buffer are still there
C1_Witness ==
    /\ session = 1 /\ is_recording /\ hold_key_pressed /\ timers = <<>>
    /\ armedBy = "toggle"
    /\ stream = 1 /\ DOMAIN streams = {1} /\ audio_data # <<>>


\* C2: while the controller is Transcribing every toggle or hold command is
\* dropped: running it changes nothing of the controller, the recorder or the
\* transcription threads.
C2_DroppedWhileTranscribing ==
    [][ (Transcribing /\ (Ran("toggle") \/ Ran("start") \/ Ran("stop")))
        => UNCHANGED ctlVars ]_vars

\* C3: a toggle command run while a session armed by the hold binding is
\* recording is ignored: the hold session keeps recording.
C3_ToggleIgnoredDuringHold ==
    [][ (is_recording /\ armedBy = "hold" /\ Ran("toggle"))
        => UNCHANGED ctlVars ]_vars

\* C4: while a session armed by the toggle binding is recording, a Down event
\* of the hold binding makes at most a start request, and neither the event
\* nor the start request it queued changes the session (same flags, same
\* stream, same buffer, no thread started).
C4_HoldDownRequestsStart ==
    (is_recording /\ armedBy = "toggle") =>
        \A ev \in HoldDowns : Emits(ev).cmds \in { <<>>, << "start" >> }

C4_SessionUnchanged ==
    (is_recording /\ armedBy = "toggle"
       /\ ((\E ev \in HoldDowns : KeyEvent(ev)) \/ Ran("start")))
    => UNCHANGED ctlVars

C4_CrossBindingExclusion ==
    [](C4_HoldDownRequestsStart) /\ [][C4_SessionUnchanged]_vars

\* the hold key went down while the toggle session records and the start
\* request it queued has been run: the session still records
C4_Witness ==
    /\ is_recording /\ armedBy = "toggle" /\ status = "recording"
    /\ session = 1 /\ hold_key_pressed /\ timers = <<>>
    /\ \E ev \in HoldDowns : TRUE

\* C5: from Idle a toggle command starts a session (Recording); a second
\* toggle command, with at least one block captured, stops it and starts its
\* transcription (Transcribing); a transcription with a non-empty text goes
\* through review to its last statement, which sets the status to "ready",
\* and the controller is Idle again if nothing else was started meanwhile.
C5_ToggleStarts ==
    (Idle /\ Ran("toggle")) =>
        /\ is_recording' /\ status' = "recording"
        /\ armedBy' = "toggle" /\ session' = session + 1

C5_ToggleStops ==
    (is_recording /\ armedBy = "toggle" /\ audio_data # <<>> /\ Ran("toggle")) =>
        /\ ~is_recording' /\ status' = "transcribing"
        /\ threads'[session].pc = "transcribe"
        /\ Transcribing'

C5_BackToIdle ==
    \A t \in Sessions :
        /\ (threads[t].pc = "transcribe" /\ threads'[t].text # <<>>)
               => threads'[t].pc = "popup"
        /\ (threads[t].pc = "popup" /\ threads'[t].pc # "popup") =>
               /\ ~InFlight(t)'
               /\ status' = "ready"
               /\ (~is_recording /\ \A u \in Sessions \ {t} : ~InFlight(u))
                      => Idle'

C5_ToggleCorrectness ==
    [][C5_ToggleStarts /\ C5_ToggleStops /\ C5_BackToIdle]_vars

\* the only session so far was started and stopped by toggle and its
\* transcription, with a non-empty text, is in review
C5_Witness ==
    /\ session = 1 /\ armedBy = "toggle" /\ endedBy = "toggle"
    /\ threads[1].pc = "popup" /\ threads[1].text # <<>>
    /\ ~is_recording /\ timers = <<>>

\* C6: with the hold key unlatched its Down latches it and requests a start,
\* with the hold key latched its Up unlatches it and requests a stop; the
\* start request run in Idle starts a session (Recording) and the stop
\* request run while that session records, with at least one block captured,
\* stops that very session and starts its transcription (Transcribing).
C6_HoldEvents ==
    /\ \A ev \in HoldDowns :
         ~hold_key_pressed => Emits(ev) = [latch |-> TRUE, cmds |-> << "start" >>]
    /\ \A ev \in HoldUps :
         hold_key_pressed => Emits(ev) = [latch |-> FALSE, cmds |-> << "stop" >>]

C6_HoldStarts ==
    (Idle /\ Ran("start")) =>
        /\ is_recording' /\ status' = "recording"
        /\ armedBy' = "hold" /\ session' = session + 1

C6_HoldStops ==
    (is_recording /\ armedBy = "hold" /\ audio_data # <<>> /\ Ran("stop")) =>
        /\ ~is_recording' /\ status' = "transcribing"
        /\ session' = session
        /\ threads'[session].pc = "transcribe"
        /\ threads'[session].duration = Len(audio_data)
        /\ Transcribing'

C6_HoldCorrectness ==
    [](C6_HoldEvents) /\ [][C6_HoldStarts /\ C6_HoldStops]_vars

\* the only session so far was started by the hold Down and stopped by the
\* hold Up, and its transcription has been started
C6_Witness ==
    /\ session = 1 /\ armedBy = "hold" /\ endedBy = "hold"
    /\ ~hold_key_pressed /\ timers = <<>>
    /\ ~is_recording /\ status = "transcribing"
    /\ threads[1].pc = "transcribe"

\* C7: while the hold key is latched, a further Down of the hold key starts
\* no timer and leaves the latch set, so it is no step of the program at all.
C7_KeyRepeatIdempotent ==
    hold_key_pressed =>
        \A ev \in HoldDowns : Emits(ev) = [latch |-> TRUE, cmds |-> <<>>]

\* the hold key is latched and the session it started records
C7_Witness ==
    /\ hold_key_pressed /\ is_recording /\ armedBy = "hold" /\ timers = <<>>
    /\ \E ev \in HoldDowns : TRUE

\* C8: a session stopped with no captured block goes from Recording to "ready"
\* without a transcription thread and without a temporary audio file; a
\* transcription is only ever started on captured audio.
C8_StopWithoutAudio ==
    (is_recording /\ ~is_recording' /\ audio_data = <<>>) =>
        /\ status' = "ready"
        /\ threads[session].pc = "none"
        /\ UNCHANGED << threads, tempfiles >>

C8_EngineNeedsAudio ==
    \A t \in Sessions : threads[t].pc = "transcribe" => threads[t].duration > 0

C8_ZeroAudioPath == [](C8_EngineNeedsAudio) /\ [][C8_StopWithoutAudio]_vars

\* the only session so far has been stopped and left no thread and no file
C8_Witness ==
    /\ session = 1 /\ ~is_recording /\ endedBy # "none" /\ status = "ready"
    /\ audio_data = <<>> /\ threads[1].pc = "none" /\ tempfiles = {}

\* C9: every transcription returns the controller to Idle: once no session is
\* recording and no do_transcribe thread is running, the status is "ready".
C9_BackToReady ==
    (~is_recording /\ \A t \in Sessions : ~InFlight(t)) => status = "ready"

\* C10: the status is the projection of the controller state.
C10_StatusProjection ==
    status = IF is_recording THEN "recording"
             ELSE IF \E t \in Sessions : InFlight(t) THEN "transcribing"
             ELSE "ready"

\* ------------------------------------------------- claims about the store
\* the least number that is greater than every number of S
LeastAbove(S) ==
    CHOOSE n \in 1..(Cardinality(S) + MaxId + MaxSessions + 1) :
        /\ \A x \in S : x < n
        /\ n = 1 \/ (n - 1) \in S

\* C11: a save takes as its number 1 + the largest number among the entries
\* in DATA_DIR (1 when there are none), whatever gaps there are below it, and
\* it is under that number that it moves the audio and writes the manifest.
C11_NumberTaken ==
    (saver.pc = "idle" /\ saver'.pc # "idle") =>
        /\ saver'.num = LeastAbove(data_dir)
        /\ saver'.num \notin data_dir

C11_NumberUsed ==
    /\ (saver.pc = "move" /\ saver'.pc = "text") =>
           data_dir' = data_dir \cup {saver.num}
    /\ (saver.pc = "dump" /\ saver'.pc = "idle" /\ manifest_ok') =>
           /\ manifest' # <<>>
           /\ manifest'[Len(manifest')].id = saver.num
           /\ saved' = Append(saved, saver.num)

C11_SequentialId == [][C11_NumberTaken /\ C11_NumberUsed]_vars

\* DATA_DIR held the entries 1, 3 and 4 and the first save has added 5
C11_Witness ==
    /\ data_dir = {1, 3, 4, 5} /\ saved = << 5 >> /\ saver.pc = "idle"
    /\ manifest # <<>> /\ manifest[Len(manifest)].id = 5

\* C12: numbers are never reused: a save that completes has a number greater
\* than the number of every save completed before it, deletions by hand in
\* between or not.
C12_NeverReused ==
    [][ saved' # saved =>
          \A i \in 1..Len(saved) : saved[i] < saved'[Len(saved')] ]_vars

\* C13: every entry of the manifest refers to an audio file and a text file
\* that exist, in every state, the states left by a death of the process at
\* any step of a save included.
C13_ManifestRefersToFiles ==
    \A i \in 1..Len(manifest) :
        /\ manifest[i].audio \in data_dir
        /\ text_dest(manifest[i].text) \in data_files

\* a first save completed and the process died during the second one, after
\* the audio was moved: its number has files and no entry in the manifest
C13_Witness ==
    /\ saver.pc = "idle" /\ session = 2 /\ Len(saved) = 1 /\ manifest_ok
    /\ manifest # <<>> /\ manifest[Len(manifest)].id = saved[1]
    /\ \E n \in data_dir : \A i \in 1..Len(manifest) : manifest[i].id # n

\* ------------------------------------------------ claims about the review
\* C14: every result the popup can return carries needs_review, and it is the
\* negation of was_edited.
C14_NeedsReview ==
    \A t \in Sessions :
        threads[t].pc = "popup" =>
            \A result \in show_transcription_popup(threads[t].text) :
                result.needs_review = << ~result.was_edited >>

\* ------------------------------------------- claims about transcribe
Min(S) == CHOOSE m \in S : \A x \in S : m <= x

\* l without its leading and trailing whitespace
Trimmed(l) ==
    LET solid == { i \in 1..Len(l) : l[i] \notin Ws }
    IN  IF solid = {} THEN <<>> ELSE SubSeq(l, Min(solid), Max(solid))

\* the line of s that starts after position a (0, or the place of a newline)
LineAfter(s, a) ==
    LET ends == { i \in (a + 1)..(Len(s) + 1) : i = Len(s) + 1 \/ s[i] = "\n" }
    IN  SubSeq(s, a + 1, Min(ends) - 1)

\* the trimmed non-empty lines of s from position a on, joined by one space
RECURSIVE JoinedFrom(_, _)
JoinedFrom(s, a) ==
    LET line == Trimmed(LineAfter(s, a))
        next == a + Len(LineAfter(s, a)) + 1
        rest == IF next > Len(s) THEN <<>> ELSE JoinedFrom(s, next)
    IN  IF line = <<>> THEN rest
        ELSE IF rest = <<>> THEN line
        ELSE line \o << " " >> \o rest

\* C15: the transcript of an engine output (exit status 0) is its lines,
\* each trimmed, the empty ones dropped, joined by one space; it has no
\* newline and no whitespace at either end, and cleaning it again gives it
\* back.
C15_Normalization ==
    (transcript.pc = "returned" /\ engine.returncode = 0) =>
        LET text == transcript.text
        IN  /\ text = JoinedFrom(engine.stdout, 0)
            /\ \A i \in 1..Len(text) : text[i] # "\n"
            /\ text # <<>> => (text[1] \notin Ws /\ text[Len(text)] \notin Ws)
            /\ Normalize(text) = text

\* the output "h\n w \n\n" has been cleaned to "h w"
C15_Witness ==
    /\ transcript.pc = "returned" /\ engine.returncode = 0
    /\ engine.stdout = << "h", "\n", " ", "w", " ", "\n", "\n" >>
    /\ transcript.text = << "h", " ", "w" >>

\* C16: a call of transcribe never ends with a raised error, whatever the
\* engine does: every failure is reported as an empty text.
C16_NeverRaises == transcript.pc # "raised"

\* ------------------------------------- claims about the end of a session
\* what transcribe gives when it returns an empty text
EmptyResults ==
    { r \in { transcribe(e.model_exists, e.returncode, e.stdout) :
                e \in EngineRuns } : ~r.raised /\ r.text = <<>> }

\* C17: when transcribe returns an empty text the thread ends without opening
\* the popup, nothing is written to DATA_DIR, the session's temp file is
\* deleted and the status is set to "ready": the controller is Idle again if
\* nothing else was started meanwhile.
C17_EmptyResult ==
    [][ \A t \in Sessions :
          (threads[t].pc = "transcribe" /\ threads'[t].pc # "transcribe") =>
            \A r \in EmptyResults :
              TranscribeEnds(t, r) =>
                /\ ~InFlight(t)'
                /\ UNCHANGED fileVars
                /\ t \in tempfiles /\ t \notin tempfiles'
                /\ status' = "ready"
                /\ (~is_recording /\ \A u \in Sessions \ {t} : ~InFlight(u))
                       => Idle' ]_vars

\* the thread of the only session, which had captured audio, has ended:
\* no temp file, nothing in DATA_DIR, the controller Idle
C17_Witness ==
    /\ session = 1 /\ endedBy # "none" /\ audio_data # <<>>
    /\ ~InFlight(1) /\ tempfiles = {} /\ data_dir = {} /\ manifest = <<>>
    /\ Idle

\* C18: when the popup returns with the action "done" exactly one entry is
\* added to DATA_DIR, made of the session's audio; when it returns with
\* "cancel" nothing is added.
C18_DonePersists ==
    [][ \A t \in Sessions :
          \A result \in show_transcription_popup(threads[t].text) :
            PopupReturns(t, result) =>
              IF result.action = "done"
              THEN /\ Cardinality(data_dir') = Cardinality(data_dir) + 1
                   /\ Len(manifest') = Len(manifest) + 1
                   /\ t \notin tempfiles'
              ELSE UNCHANGED fileVars ]_vars

\* C19: whenever the controller is Idle no temporary audio file exists: that
\* of every session so far has been moved into DATA_DIR or deleted.
C19_NoTempLeft == Idle => tempfiles = {}

\* ---------------------------------------------- claims about the Recorder
\* C20: a start of the Recorder while it is recording leaves its stream, the
\* streams that are open and the buffered blocks as they are.
C20_StartWhileArmed ==
    [][ (recording /\ session' = session + 1) =>
          UNCHANGED << stream, streams, audio_data >> ]_vars

\* ------------------------------------------ claims about failures to start
\* C21: a failure to open or to start the audio stream leaves the controller
\* Idle and no stream open: whenever the recording flag is set the recorder
\* holds a started stream, and every stream that is open has been started.
C21_FailedStartLeavesIdle ==
    /\ is_recording => (stream \in DOMAIN streams /\ streams[stream])
    /\ \A h \in DOMAIN streams : streams[h]

\* --------------------------------------- claims about appends and stop
\* C22: for every interleaving of start, the sample callbacks and stop, the
\* audio stop returns holds exactly the blocks whose callback read the session
\* as armed, each once and in the order of delivery, and so none of a callback
\* that read it as stopped.
C22_AppendSafety == stop_pc = "returned" => returned = armed_seen

\* stop has returned two blocks in order and dropped a later one whose callback
\* ran between its two steps or after the flag was cleared
C22_Witness ==
    /\ stop_pc = "returned"
    /\ Len(returned) >= 2
    /\ delivered > Len(returned)

\* ------------------------------------------------ claims about the bindings
\* C23: a key-down event sets a binding off only if its keycode is the
\* binding's and its modifiers are exactly the binding's, a binding with no
\* modifiers taking any; extra modifiers on top of a non-empty binding's do
\* not set it off.
C23_ExactModifiers ==
    /\ key.branch = "toggle" /\ key.type = "down"
         => /\ key.keycode = v3.config.toggle_key
            /\ v3.config.toggle_mods # {} => key.flags = v3.config.toggle_mods
    /\ key.branch = "hold" /\ key.type = "down"
         => /\ key.keycode = v3.config.hold_key
            /\ v3.config.hold_mods # {} => key.flags = v3.config.hold_mods

\* C25: with no persisted configuration the hotkeys are inert: as long as no
\* configuration was loaded from a file, no key event of any keycode has set
\* a binding off and no recording has been started.
C25_InertWithoutConfig ==
    ~v3.from_file => (key.branch = "none" /\ session = 0 /\ ~recording)

\* C24: the bindings are replaced wholesale by a calibration: once the
\* configuration is calibrated, a key event gives at most one command, and
\* gives one only if its keycode is the toggle or the hold key now configured.
C24_ReplacedWholesale ==
    config.calibrated =>
        \A ev \in KeyEvents :
            /\ Len(Emits(ev).cmds) <= 1
            /\ Emits(ev).cmds # <<>>
                 => ev.keycode \in {config.toggle_key, config.hold_key}

C27_TranscriptionEnds ==
    \A t \in Sessions :
        (threads[t].pc = "transcribe")
            ~> (threads[t].pc \notin {"transcribe", "hung"})

\* ------------------------------------------- claims about the two bindings
\* C28: the toggle and the hold binding are never the same key: after a
\* configuration is loaded or a calibration completes the two differ.
C28_BindingsDiffer ==
    /\ config.calibrated => config.toggle_key # config.hold_key
    /\ \A i \in 1..Len(taps) : taps[i].toggle_key # taps[i].hold_key

\* C30: a session is ended only by the stop event of the binding that armed
\* it: the stop request of a hold-key Up event (the only source of stop
\* requests) that runs while a session armed by the toggle binding is
\* recording leaves that session as it is.
C30_HoldUpLeavesToggleSession ==
    [][ (is_recording /\ armedBy = "toggle" /\ Ran("stop"))
        => UNCHANGED ctlVars ]_vars

\* ------------------------------------------------ claims about the server
\* C29: a request in the wrong state is refused and changes nothing: POST
\* /record/start while recording answers 'already_recording' and leaves the
\* stream, the buffer and the other fields alone; POST /record/stop while not
\* recording fails with an error and neither stops anything nor calls
\* transcribe.
C29_StartRefused ==
    (recording /\ \E outcome \in ServerStarts : PostRecordStart(outcome))
        => /\ reply'.status = "already_recording"
           /\ UNCHANGED << recording, audio_data, stream, streams, session,
                           server, tempfiles >>

C29_StopRefused ==
    (~recording /\ \E run \in ServerRuns : PostRecordStop(run))
        => /\ reply'.code = 400
           /\ ~reply'.transcribed
           /\ UNCHANGED << recording, audio_data, stream, streams, session,
                           server, tempfiles >>

C29_WrongStateRejected == [][C29_StartRefused /\ C29_StopRefused]_vars

\* a start request was refused while a session with a captured block records
C29_Witness ==
    /\ reply.endpoint = "/record/start"
    /\ reply.status = "already_recording"
    /\ recording /\ audio_data # <<>> /\ stream \in DOMAIN streams

\* ------------------------------------------------- claims about dictate.py
\* C31: the hold latch tracks the physical key: whenever the hold key is not
\* held down the latch is false, so that no later release of another key can
\* stop a session on its account.
C31_LatchTracksKey == dictate.numpad8_held => "num8" \in dictate.down

\* C33: in every state where the recording flag is true an open audio stream
\* of the current session exists and is the one the recorder holds: no stop
\* on a background thread closes or clears the stream of a later session.
C33_RecordingHasStream ==
    recording => /\ stream = session
                 /\ stream \in DOMAIN streams
                 /\ streams[stream]

\* C34: each recording session is handed to transcription at most once: of
\* the stop requests for one session at most one passes the test of
\* is_recording and goes on to transcribe the session.
C34_HandedOnce ==
    \A i, j \in 1..Len(handed) : handed[i] = handed[j] => i = j

\* ---------------------------------------------- claims about panokeet_app.py
\* C32: the audio of a session is handed off one way: the samples a thread
\* transcribes are the samples captured during the session whose stop started
\* it, and every entry saved holds the audio file written from the samples
\* its transcript was produced from; a later session never empties, replaces
\* or mixes them.
C32_HandedOffOneWay ==
    /\ \A p \in 1..Len(papp.files) :
          \A k \in 1..Len(papp.files[p].samples) :
             papp.files[p].samples[k] = papp.files[p].session
    /\ \A e \in 1..Len(papp.entries) :
          /\ papp.entries[e].audio.session = papp.entries[e].transcript.session
          /\ papp.entries[e].audio.samples = papp.entries[e].transcript.samples

\* ------------------------------------------- claims about backend/server.py
\* what GET /pending tests
Pending == Truthy(server.last_transcript) /\ server.temp_audio_path # NoPath

\* a step of /record/stop or /toggle that ends in a transcript
Transcribed == recording /\ ~recording' /\ reply'.status = "transcribed"

\* C36: GET /pending answers pending exactly from a successful transcription
\* to the following /save, /cancel or start of a recording: its answer is the
\* pending state, which a step leaves true iff the step is a successful
\* transcription, or it was true and the step is none of the three.
C36_PendingWindow ==
    [][ /\ GetPending => (reply'.status = "pending" <=> Pending)
        /\ Pending' <=> \/ Transcribed
                        \/ /\ Pending
                           /\ ~PostSave
                           /\ ~PostCancel
                           /\ session' = session ]_vars

\* after a save that moved the audio, /pending has answered "not pending"
C36_Witness ==
    /\ reply.endpoint = "/pending"
    /\ reply.status = "not pending"
    /\ data_dir # {}
    /\ Truthy(server.last_transcript)

\* ------------------------------------------------ claims about the callback
\* the key of ev is neither the toggle key nor the hold key of a tap
NoBinding(ev) ==
    \A i \in 1..Len(taps) :
        ev.keycode \notin {taps[i].toggle_key, taps[i].hold_key}

\* ev is an Up of a tap's hold key while the latch is not set
UnlatchedHoldUp(ev) ==
    /\ ev.type = "Up"
    /\ ~hold_key_pressed
    /\ \E i \in 1..Len(taps) : ev.keycode = taps[i].hold_key

\* C35: a key event that matches neither binding, and an Up of the hold key
\* while it is not latched, emit no command and leave the latch as it is; the
\* delivery of a key event touches nothing but the latch and the queue of
\* commands, so no step that changes the latch or queues a command is the
\* delivery of such an event, and session state and status stay as they are.
C35_NoCommand ==
    \A ev \in KeyEvents :
        (NoBinding(ev) \/ UnlatchedHoldUp(ev)) =>
            /\ Emits(ev).cmds = <<>>
            /\ Emits(ev).latch = hold_key_pressed

C35_NothingChanges ==
    (hold_key_pressed' # hold_key_pressed \/ Len(timers') > Len(timers)) =>
        \A ev \in KeyEvents :
            (NoBinding(ev) \/ UnlatchedHoldUp(ev)) => ~KeyEvent(ev)

C35_InertEvents == [](C35_NoCommand) /\ [][C35_NothingChanges]_vars

\* a toggle session is recording, the latch is not set, and the taps can be
\* given an Up of their hold key and an event of an unbound key
C35_Witness ==
    /\ is_recording
    /\ armedBy = "toggle"
    /\ taps # <<>>
    /\ \E ev \in KeyEvents : UnlatchedHoldUp(ev) /\ Len(timers) <= MaxQueue
    /\ \E ev \in KeyEvents : NoBinding(ev)

====
